---- MODULE Spec2Model ----
(***************************************************************************)
(* The audit pipeline of sfgov-a11y-checker: RateLimiter.processItems      *)
(* (src/lib/rateLimiter.ts) driven by AuditEngine (src/lib/auditEngine.ts).*)
(*                                                                         *)
(* JavaScript runs every callback to completion, so one action of the      *)
(* model is one turn of the event loop: a public method call, a timer      *)
(* firing, or the settling of an auditor's audit() promise, each followed  *)
(* by all the synchronous code (and promise continuations) it triggers.    *)
(* One AuditEngine, as useAuditEngine.start constructs it, runs startAudit *)
(* once.  URLs are identified by their index 1..urlsLen in the list, the   *)
(* findings of a URL by the auditors that returned them.  NumAuditors      *)
(* auditors stand for the six of the engine.                               *)
(*                                                                         *)
(* The engine's callbacks are those of useAuditEngine                      *)
(* (src/hooks/useAuditEngine.ts), which dispatch to auditReducer           *)
(* (src/context/AuditContext.tsx).  Spec drives the engine through its own *)
(* methods, with no session in the store; HookSpec drives it through the   *)
(* hook; ReducerSpec dispatches to the reducer alone; AuditSpec follows    *)
(* one call of an auditor's audit().  ParseSpec, HeadingSpec and           *)
(* ButtonSpec apply CSVParser.parseCSV, the heading rule and the button    *)
(* rule to one input each.                                                 *)
(***************************************************************************)
EXTENDS Integers, Sequences, FiniteSets, TLC

\* Bounds of the model.
MaxItems == 3
MaxConc == 2
NumAuditors == 2
MaxPauses == 1
MaxSessions == 2
MaxErrors == 1
MaxResults == 1500
MaxElems == 3

\* CLEANUP_MEMORY: the size above which results are trimmed, and what is kept.
CleanupThreshold == 1000
KeepRecent == 500

Items == 1..MaxItems
Auditors == 1..NumAuditors
DelayChoices == {0, 1}
Outcomes == {"findings", "empty", "fetchFailed", "rejected"}
NoOdd == [url |-> 0, kind |-> "none", auditor |-> 0]

\* currentSession = null.
NoSession ==
  [id |-> 0, status |-> "none", currentUrl |-> 0, completed |-> 0, total |-> 0,
   results |-> << >>, errors |-> 0]

\* Sizes of the result lists ADD_RESULTS is dispatched with in ReducerSpec.
BatchSizes == {400, 700}

\* No call of audit() under way.
NoCall ==
  [pc |-> "idle", auditor |-> 0, url |-> 0, signal |-> "live", fetch |-> "none",
   page |-> << >>, result |-> << >>, warned |-> "none"]

\* What the fetch of fetchAndParseHTML can come to.
FetchOutcomes == {"ok", "httpError", "networkError", "aborted", "timeout"}

\* No parseCSV call yet.
NoParse == [called |-> FALSE, content |-> << >>, urls |-> << >>, errors |-> << >>,
            totalRows |-> 0, validUrls |-> 0]

\* No run of the heading rule, of the button rule yet.
NoHeadingAudit == [called |-> FALSE, levels |-> << >>, results |-> << >>]
NoButtonAudit == [called |-> FALSE, buttons |-> << >>, results |-> << >>]

VARIABLES
  maxConcurrent,        \* RateLimiter.maxConcurrent
  delayBetweenBatches,  \* RateLimiter.delayBetweenBatches
  activeRequests,       \* RateLimiter.activeRequests
  rlPaused,             \* RateLimiter.isPaused
  isCancelled,          \* RateLimiter.isCancelled
  rlCompleted,          \* processItems' closure variable `completed` (the cursor)
  promise,              \* the promise processItems returns
  nPauseWait,           \* processNext invocations sleeping in the pause loop
  nScheduled,           \* pending setTimeout(processNext, 0)
  nDelay,               \* processNext invocations sleeping in the inter-batch delay
  abortController,      \* AuditEngine.abortController: "null", "live", "aborted"
  engPaused,            \* AuditEngine.isPaused
  engCompleted,         \* processUrls' closure variable `completed`
  urlsLen,              \* urls.length
  item,                 \* per URL: position of its processUrl call and allResults
  dispatchLog,          \* the items handed to the processor, in invocation order
  starts,               \* onProgress events emitted before auditUrl, per URL
  ends,                 \* onProgress events emitted after auditUrl, per URL
  lastProgress,         \* payload of the latest onProgress event
  delivered,            \* per URL, the auditors whose findings onResults carried
  onCompleteCalls,      \* invocations of callbacks.onComplete
  systemErrors,         \* invocations of callbacks.onError with url = 'system'
  urlErrors,            \* URLs reported through callbacks.onError
  odd,                  \* the one URL of the run whose audits do not return findings
  pauses,               \* number of pause() calls so far
  uploadedUrls,         \* AppState.uploadedUrls.length
  session,              \* AppState.currentSession
  sessionIds,           \* session ids generated so far (generateSessionId)
  engineRef,            \* useAuditEngine's engineRef.current: 0 is null
  engines,              \* AuditEngines constructed and started by useAuditEngine.start
  call,                 \* one call of an auditor's audit(url, signal)
  parsed,               \* one call of CSVParser.parseCSV(content): content and result
  headingAudit,         \* one run of HeadingAuditor's rule: heading levels and results
  buttonAudit           \* one run of ButtonAuditor's rule: buttons and results

vars == << maxConcurrent, delayBetweenBatches, activeRequests, rlPaused,
           isCancelled, rlCompleted, promise, nPauseWait, nScheduled, nDelay,
           abortController, engPaused, engCompleted, urlsLen, item,
           dispatchLog, starts, ends, lastProgress, delivered,
           onCompleteCalls, systemErrors, urlErrors, odd, pauses,
           uploadedUrls, session, sessionIds, engineRef, engines, call,
           parsed, headingAudit, buttonAudit >>

\* The whole state as one record, so that the synchronous call chains of the
\* source can be written as functions from state to state.
St ==
  [ maxConcurrent |-> maxConcurrent, delayBetweenBatches |-> delayBetweenBatches,
    activeRequests |-> activeRequests, rlPaused |-> rlPaused,
    isCancelled |-> isCancelled, rlCompleted |-> rlCompleted,
    promise |-> promise, nPauseWait |-> nPauseWait, nScheduled |-> nScheduled,
    nDelay |-> nDelay, abortController |-> abortController,
    engPaused |-> engPaused, engCompleted |-> engCompleted, urlsLen |-> urlsLen,
    item |-> item, dispatchLog |-> dispatchLog, starts |-> starts, ends |-> ends,
    lastProgress |-> lastProgress, delivered |-> delivered,
    onCompleteCalls |-> onCompleteCalls, systemErrors |-> systemErrors,
    urlErrors |-> urlErrors, odd |-> odd, pauses |-> pauses,
    uploadedUrls |-> uploadedUrls, session |-> session, sessionIds |-> sessionIds,
    engineRef |-> engineRef, engines |-> engines, call |-> call,
    parsed |-> parsed, headingAudit |-> headingAudit, buttonAudit |-> buttonAudit ]

Set(s) ==
  /\ maxConcurrent' = s.maxConcurrent
  /\ delayBetweenBatches' = s.delayBetweenBatches
  /\ activeRequests' = s.activeRequests
  /\ rlPaused' = s.rlPaused
  /\ isCancelled' = s.isCancelled
  /\ rlCompleted' = s.rlCompleted
  /\ promise' = s.promise
  /\ nPauseWait' = s.nPauseWait
  /\ nScheduled' = s.nScheduled
  /\ nDelay' = s.nDelay
  /\ abortController' = s.abortController
  /\ engPaused' = s.engPaused
  /\ engCompleted' = s.engCompleted
  /\ urlsLen' = s.urlsLen
  /\ item' = s.item
  /\ dispatchLog' = s.dispatchLog
  /\ starts' = s.starts
  /\ ends' = s.ends
  /\ lastProgress' = s.lastProgress
  /\ delivered' = s.delivered
  /\ onCompleteCalls' = s.onCompleteCalls
  /\ systemErrors' = s.systemErrors
  /\ urlErrors' = s.urlErrors
  /\ odd' = s.odd
  /\ pauses' = s.pauses
  /\ uploadedUrls' = s.uploadedUrls
  /\ session' = s.session
  /\ sessionIds' = s.sessionIds
  /\ engineRef' = s.engineRef
  /\ engines' = s.engines
  /\ call' = s.call
  /\ parsed' = s.parsed
  /\ headingAudit' = s.headingAudit
  /\ buttonAudit' = s.buttonAudit

Min(a, b) == IF a < b THEN a ELSE b

\* F(x), with x evaluated once.
Apply(F(_), x) == CHOOSE r \in {F(v) : v \in {x}} : TRUE

Aborted(s) == s.abortController = "aborted"

----------------------------------------------------------------------------
\* auditReducer.  A session's results are the findings in list order, kept as
\* runs [url, lo, hi]: the findings lo..hi of the list one ADD_RESULTS brought
\* for that URL.

RECURSIVE Count(_)
Count(r) ==
  IF r = << >> THEN 0 ELSE (Head(r).hi - Head(r).lo + 1) + Count(Tail(r))

\* The list without its first d findings.
RECURSIVE Drop(_, _)
Drop(r, d) ==
  IF d <= 0 \/ r = << >> THEN r
  ELSE LET h == Head(r)
           n == h.hi - h.lo + 1
       IN  IF d >= n THEN Drop(Tail(r), d - n)
           ELSE << [h EXCEPT !.lo = @ + d] >> \o Tail(r)

\* results.slice(-k)
sliceLast(r, k) == Drop(r, Count(r) - k)

\* Seeded fault: ADD_RESULTS puts the new findings in front.
prependResults(r, payload) == << payload >> \o r

\* [...results, ...action.payload]
appendResults(r, payload) == Append(r, payload)

auditReducer(s, a) ==
  IF a.type = "UPLOAD_URLS"
    THEN [s EXCEPT !.uploadedUrls = a.payload, !.session = NoSession]
  ELSE IF a.type = "START_AUDIT"
    THEN [s EXCEPT !.sessionIds = @ + 1,
                   !.session = [id |-> s.sessionIds + 1, status |-> "running",
                                currentUrl |-> 0, completed |-> 0,
                                total |-> s.uploadedUrls,
                                results |-> << >>, errors |-> 0]]
  ELSE IF a.type = "RESET_SESSION"
    THEN [s EXCEPT !.uploadedUrls = 0, !.session = NoSession]
  ELSE IF s.session = NoSession
    THEN s
  ELSE
  CASE a.type = "UPDATE_PROGRESS" ->
         [s EXCEPT !.session.currentUrl = a.payload.currentUrl,
                   !.session.completed = a.payload.completed,
                   !.session.total = a.payload.total]
    [] a.type = "ADD_RESULTS" ->
         [s EXCEPT !.session.results = appendResults(@, a.payload)]
    [] a.type = "ADD_ERROR" ->
         [s EXCEPT !.session.errors = @ + 1]
    [] a.type = "PAUSE_AUDIT" ->
         [s EXCEPT !.session.status = "paused"]
    [] a.type = "RESUME_AUDIT" ->
         [s EXCEPT !.session.status = "running"]
    [] a.type = "CANCEL_AUDIT" ->
         [s EXCEPT !.session.status = "cancelled"]
    [] a.type = "COMPLETE_AUDIT" ->
         [s EXCEPT !.session.status = "completed"]
    [] a.type = "CLEANUP_MEMORY" ->
         IF s.session.status \in {"completed", "cancelled"}
            /\ Count(s.session.results) > CleanupThreshold
           THEN [s EXCEPT !.session.results = sliceLast(@, KeepRecent)]
           ELSE s
    [] OTHER -> s

----------------------------------------------------------------------------
\* The callbacks useAuditEngine hands to the engine.

\* onProgress(progress) with the payload the engine has just put together.
updateProgress(s) ==
  auditReducer(s, [type |-> "UPDATE_PROGRESS",
                   payload |-> [currentUrl |-> s.lastProgress.currentUrl,
                                completed |-> s.lastProgress.completed,
                                total |-> s.urlsLen]])

onProgress(s) == Apply(updateProgress, s)

\* onResults(allResults) for URL i: one finding for each auditor that found.
onResults(s, i) ==
  LET addResults(v) ==
        auditReducer(v, [type |-> "ADD_RESULTS",
                         payload |-> [url |-> i, lo |-> 1,
                                      hi |-> Cardinality(v.item[i].acc)]])
  IN  Apply(addResults, s)

\* onError(error)
addError(s) == auditReducer(s, [type |-> "ADD_ERROR"])

onError(s) == Apply(addError, s)

\* onComplete()
completeAudit(s) ==
  [auditReducer(s, [type |-> "COMPLETE_AUDIT"]) EXCEPT !.engineRef = 0]

onComplete(s) == Apply(completeAudit, s)

----------------------------------------------------------------------------
\* AuditEngine.startAudit, after `await this.processUrls(urls)`.

\* resolve(): the first settlement wins; startAudit then calls onComplete.
resolve(s) ==
  IF s.promise = "pending"
    THEN onComplete([s EXCEPT !.promise = "resolved", !.onCompleteCalls = @ + 1])
    ELSE s

\* Seeded fault: a rejection is reported even if the promise has settled.
rejectAfterSettlement(s) ==
  onError([s EXCEPT !.promise = "rejected", !.systemErrors = @ + 1])

\* reject(new Error('Processing cancelled')): the error's name is 'Error', not
\* 'AbortError', so startAudit's catch reports it with url = 'system'.
reject(s) ==
  IF s.promise = "pending"
    THEN onError([s EXCEPT !.promise = "rejected", !.systemErrors = @ + 1])
    ELSE s

----------------------------------------------------------------------------
\* RateLimiter.processNext, the finally block.

\* Seeded fault: the finally block without activeRequests--.
finallyNoDecrement(s) ==
  IF s.delayBetweenBatches > 0 /\ s.activeRequests = 0 /\ s.rlCompleted < s.urlsLen
    THEN [s EXCEPT !.nDelay = @ + 1]
    ELSE [s EXCEPT !.nScheduled = @ + 1]

finally(s) ==
  LET s1 == [s EXCEPT !.activeRequests = @ - 1]
  IN  IF s1.delayBetweenBatches > 0 /\ s1.activeRequests = 0
         /\ s1.rlCompleted < s1.urlsLen
        THEN [s1 EXCEPT !.nDelay = @ + 1]
        ELSE [s1 EXCEPT !.nScheduled = @ + 1]

----------------------------------------------------------------------------
\* AuditEngine.processUrls: the per-URL worker processUrl.

\* Seeded fault: processUrl's tail without completed++.
processUrlTailNoCount(s, i) ==
  LET s1 == IF s.item[i].acc # {}
              THEN onResults([s EXCEPT !.delivered[i] = s.item[i].acc], i)
              ELSE s
      c  == s1.engCompleted
      s2 == [s1 EXCEPT !.ends[i] = @ + 1,
                       !.lastProgress = [currentUrl |-> IF c < s1.urlsLen THEN c + 1 ELSE 0,
                                         completed |-> c],
                       !.item[i].st = "settled"]
  IN  Apply(finally, onProgress(s2))

\* Seeded fault: the second onProgress reports the count before completed++.
processUrlTailStaleProgress(s, i) ==
  LET s1 == IF s.item[i].acc # {}
              THEN onResults([s EXCEPT !.delivered[i] = s.item[i].acc], i)
              ELSE s
      c  == s1.engCompleted + 1
      s2 == [s1 EXCEPT !.engCompleted = c,
                       !.ends[i] = @ + 1,
                       !.lastProgress = [currentUrl |-> IF c < s1.urlsLen THEN c + 1 ELSE 0,
                                         completed |-> c - 1],
                       !.item[i].st = "settled"]
  IN  Apply(finally, onProgress(s2))

\* processUrl once auditUrl has returned allResults (= item[i].acc): onResults
\* if there are findings, completed++, the second onProgress; the worker's
\* promise then resolves and processNext's finally block runs.
processUrlTail(s, i) ==
  LET s1 == IF s.item[i].acc # {}
              THEN onResults([s EXCEPT !.delivered[i] = s.item[i].acc], i)
              ELSE s
      c  == s1.engCompleted + 1
      s2 == [s1 EXCEPT !.engCompleted = c,
                       !.ends[i] = @ + 1,
                       !.lastProgress = [currentUrl |-> IF c < s1.urlsLen THEN c + 1 ELSE 0,
                                         completed |-> c],
                       !.item[i].st = "settled"]
  IN  Apply(finally, onProgress(s2))

\* processUrl when auditUrl throws: onError({url, ...}), then the same tail.
processUrlCatch(s, i) ==
  LET s1 == onError([s EXCEPT !.urlErrors = @ \cup {i}])
      c  == s1.engCompleted + 1
      s2 == [s1 EXCEPT !.engCompleted = c,
                       !.ends[i] = @ + 1,
                       !.lastProgress = [currentUrl |-> IF c < s1.urlsLen THEN c + 1 ELSE 0,
                                         completed |-> c],
                       !.item[i].st = "settled"]
  IN  Apply(finally, onProgress(s2))

\* AuditEngine.auditUrl, the loop head for auditor k: stop on abort or at the
\* end of the list, otherwise call auditor.audit and wait for it.
auditUrl(s, i, k) ==
  IF Aborted(s) \/ k > NumAuditors
    THEN processUrlTail(s, i)
    ELSE [s EXCEPT !.item[i].st = "audit", !.item[i].k = k]

\* Seeded fault: the first onProgress counts the URL it announces as done.
processUrlBodyCountsAhead(s, i) ==
  auditUrl(onProgress([s EXCEPT !.starts[i] = @ + 1,
                                !.lastProgress = [currentUrl |-> i,
                                                  completed |-> s.engCompleted + 1]]),
           i, 1)

\* processUrl after its pause loop: the first onProgress, then auditUrl.
processUrlBody(s, i) ==
  auditUrl(onProgress([s EXCEPT !.starts[i] = @ + 1,
                                !.lastProgress = [currentUrl |-> i,
                                                  completed |-> s.engCompleted]]),
           i, 1)

\* processUrl from its entry: throws when already aborted (processNext catches
\* and warns), sleeps when the engine is paused, otherwise proceeds.
processUrl(s, i) ==
  IF Aborted(s)
    THEN finally([s EXCEPT !.item[i].st = "settled"])
    ELSE IF s.engPaused
      THEN [s EXCEPT !.item[i].st = "urlPause"]
      ELSE processUrlBody(s, i)

\* The settling of auditor.audit(url, signal) inside auditUrl's try/catch.
\* "findings": the auditor returns its findings and they are pushed onto
\* allResults; "empty": it returns []; "fetchFailed": its fetch failed and its
\* own catch returned [] (handleError); "rejected": the promise rejects and
\* auditUrl's catch warns and moves on.  The first outcome of a live run that
\* is not "findings" is remembered in odd.
\* Seeded fault: auditUrl without its try/catch, so that a rejection reaches
\* processUrl's catch.
auditSettledNoCatch(s, i, outcome) ==
  LET k  == s.item[i].k
      s1 == IF outcome = "findings" THEN [s EXCEPT !.item[i].acc = @ \cup {k}] ELSE s
      s2 == IF outcome # "findings" /\ ~Aborted(s) /\ s.odd.url = 0
              THEN [s1 EXCEPT !.odd = [url |-> i, kind |-> outcome, auditor |-> k]]
              ELSE s1
  IN  IF outcome = "rejected" THEN processUrlCatch(s2, i) ELSE auditUrl(s2, i, k + 1)

auditSettled(s, i, outcome) ==
  LET k  == s.item[i].k
      s1 == IF outcome = "findings" THEN [s EXCEPT !.item[i].acc = @ \cup {k}] ELSE s
      s2 == IF outcome # "findings" /\ ~Aborted(s) /\ s.odd.url = 0
              THEN [s1 EXCEPT !.odd = [url |-> i, kind |-> outcome, auditor |-> k]]
              ELSE s1
      nextAuditor(v) == auditUrl(v, i, k + 1)
  IN  Apply(nextAuditor, s2)

----------------------------------------------------------------------------
\* RateLimiter.processItems.

\* processNext: claim items[completed] and invoke the processor on it.
\* Seeded fault: the same without completed++.
dispatchNoAdvance(s) ==
  LET i == s.rlCompleted + 1
  IN  processUrl([s EXCEPT !.activeRequests = @ + 1,
                           !.dispatchLog = Append(@, i)], i)

dispatch(s) ==
  LET i == s.rlCompleted + 1
  IN  processUrl([s EXCEPT !.rlCompleted = i,
                           !.activeRequests = @ + 1,
                           !.dispatchLog = Append(@, i)], i)

\* processNext after its pause loop.
processNextAfterPause(s) ==
  IF s.rlCompleted >= s.urlsLen
    THEN resolve(s)
    ELSE IF s.activeRequests >= s.maxConcurrent
      THEN s
      ELSE dispatch(s)

\* Seeded fault: processNext without its pause loop.
processNextNoPauseLoop(s) ==
  IF s.isCancelled \/ Aborted(s)
    THEN reject(s)
    ELSE processNextAfterPause(s)

\* processNext from its entry.
processNext(s) ==
  IF s.isCancelled \/ Aborted(s)
    THEN reject(s)
    ELSE IF s.rlPaused
      THEN [s EXCEPT !.nPauseWait = @ + 1]
      ELSE processNextAfterPause(s)

RECURSIVE Repeat(_, _)
Repeat(s, n) == IF n = 0 THEN s ELSE Repeat(processNext(s), n - 1)

RECURSIVE RepeatDispatch(_, _)
RepeatDispatch(s, n) == IF n = 0 THEN s ELSE RepeatDispatch(dispatch(s), n - 1)

\* processItems(items, processor, signal) with items.length = n.
\* Seeded fault: every item is handed to the processor at once.
processItemsEager(s, n) ==
  RepeatDispatch([s EXCEPT !.isCancelled = FALSE, !.promise = "pending",
                           !.rlCompleted = 0], n)

processItems(s, n) ==
  Repeat([s EXCEPT !.isCancelled = FALSE, !.promise = "pending",
                   !.rlCompleted = 0],
         Min(s.maxConcurrent, n))

\* AuditEngine.startAudit(urls) with urls.length = n, up to the first await.
startAudit(s, n) ==
  processItems([s EXCEPT !.abortController = "live", !.engPaused = FALSE,
                         !.engCompleted = 0, !.urlsLen = n], n)

----------------------------------------------------------------------------
Init ==
  /\ maxConcurrent \in 1..MaxConc
  /\ delayBetweenBatches \in DelayChoices
  /\ activeRequests = 0
  /\ rlPaused = FALSE
  /\ isCancelled = FALSE
  /\ rlCompleted = 0
  /\ promise = "none"
  /\ nPauseWait = 0
  /\ nScheduled = 0
  /\ nDelay = 0
  /\ abortController = "null"
  /\ engPaused = FALSE
  /\ engCompleted = 0
  /\ urlsLen = 0
  /\ item = [i \in Items |-> [st |-> "unclaimed", k |-> 0, acc |-> {}]]
  /\ dispatchLog = << >>
  /\ starts = [i \in Items |-> 0]
  /\ ends = [i \in Items |-> 0]
  /\ lastProgress = [currentUrl |-> 0, completed |-> 0]
  /\ delivered = [i \in Items |-> {}]
  /\ onCompleteCalls = 0
  /\ systemErrors = 0
  /\ urlErrors = {}
  /\ odd = NoOdd
  /\ pauses = 0
  /\ uploadedUrls = 0
  /\ session = NoSession
  /\ sessionIds = 0
  /\ engineRef = 0
  /\ engines = 0
  /\ call = NoCall
  /\ parsed = NoParse
  /\ headingAudit = NoHeadingAudit
  /\ buttonAudit = NoButtonAudit

StartAudit ==
  /\ abortController = "null"
  /\ \E n \in 0..MaxItems : \E nxt \in {startAudit(St, n)} : Set(nxt)

\* AuditEngine.pause()
Pause ==
  /\ abortController # "aborted"
  /\ ~engPaused
  /\ pauses < MaxPauses
  /\ \E nxt \in {[St EXCEPT !.engPaused = TRUE, !.rlPaused = TRUE, !.pauses = @ + 1]} : Set(nxt)

\* AuditEngine.resume()
Resume ==
  /\ abortController # "aborted"
  /\ engPaused \/ rlPaused
  /\ \E nxt \in {[St EXCEPT !.engPaused = FALSE, !.rlPaused = FALSE]} : Set(nxt)

\* AuditEngine.cancel()
Cancel ==
  /\ abortController = "live"
  /\ \E nxt \in {[St EXCEPT !.abortController = "aborted", !.isCancelled = TRUE]} : Set(nxt)

\* The 100 ms timer of processNext's pause loop fires and the loop ends.
PausePollTimer ==
  /\ nPauseWait > 0
  /\ ~(rlPaused /\ ~isCancelled /\ abortController # "aborted")
  /\ \E nxt \in {processNextAfterPause([St EXCEPT !.nPauseWait = @ - 1])} : Set(nxt)

\* setTimeout(processNext, 0) fires.
ScheduledTimer ==
  /\ nScheduled > 0
  /\ \E nxt \in {processNext([St EXCEPT !.nScheduled = @ - 1])} : Set(nxt)

\* The inter-batch delay elapses; the finally block schedules processNext.
DelayTimer ==
  /\ nDelay > 0
  /\ \E nxt \in {[St EXCEPT !.nDelay = @ - 1, !.nScheduled = @ + 1]} : Set(nxt)

\* The 100 ms timer of processUrl's pause loop fires and the loop ends.
\* pause() and resume() set both isPaused flags together and startAudit clears
\* the engine's, so the engine is never paused when processNext, past its own
\* pause loop, calls processUrl: no worker ever sleeps in this loop
\* (ProcessUrlNeverSleeps) and the step is no part of the next-state relation.
UrlPausePoll(i) ==
  /\ item[i].st = "urlPause"
  /\ ~(engPaused /\ abortController # "aborted")
  /\ \E nxt \in {processUrlBody(St, i)} : Set(nxt)

ProcessUrlNeverSleeps ==
  /\ engPaused => rlPaused
  /\ \A i \in Items : item[i].st # "urlPause"

\* What audit() of URL i can come to.  After an abort the auditors' own
\* checkAbortSignal and the aborted fetch end in their catch, which returns [].
\* In a live run the auditors return their findings, except for at most one
\* URL of the run: a page with nothing to report or one whose fetch fails
\* (for each of its auditors, which fetch it one by one), or a URL for which
\* one auditor rejects.
Allowed(i, outcome) ==
  IF abortController = "aborted"
    THEN outcome = "empty"
    ELSE CASE outcome = "findings" -> ~(odd.url = i /\ odd.kind \in {"empty", "fetchFailed"})
           [] outcome = "rejected" -> odd.url = 0
           [] OTHER -> \/ odd.url = 0 /\ item[i].k = 1
                       \/ odd.url = i /\ odd.kind = outcome

\* auditor.audit(url, signal) settles.
AuditorSettles(i) ==
  /\ item[i].st = "audit"
  /\ \E outcome \in Outcomes :
       /\ Allowed(i, outcome)
       /\ \E nxt \in {auditSettled(St, i, outcome)} : Set(nxt)

\* auditor.audit(url, signal) settles, every auditor returning its findings.
AuditorReturns(i) ==
  /\ item[i].st = "audit"
  /\ \E nxt \in {auditSettled(St, i, IF abortController = "aborted"
                                         THEN "empty" ELSE "findings")} : Set(nxt)

Next ==
  \/ StartAudit
  \/ Pause
  \/ Resume
  \/ Cancel
  \/ PausePollTimer
  \/ ScheduledTimer
  \/ DelayTimer
  \/ \E i \in Items : AuditorSettles(i)

Spec == Init /\ [][Next]_vars

\* Timers fire, audits settle and a paused run is resumed.
\* The scheduler alone: the same run with workers whose audits all succeed.
LiveNext ==
  \/ StartAudit
  \/ Pause
  \/ Resume
  \/ Cancel
  \/ PausePollTimer
  \/ ScheduledTimer
  \/ DelayTimer
  \/ \E i \in Items : AuditorReturns(i)

\* The event loop runs its timers, every audit settles, and a paused run is
\* resumed.
Fairness ==
  /\ WF_vars(PausePollTimer)
  /\ WF_vars(ScheduledTimer)
  /\ WF_vars(DelayTimer)
  /\ WF_vars(Resume)
  /\ \A i \in Items : WF_vars(AuditorReturns(i))

LiveSpec == Init /\ [][LiveNext]_vars /\ Fairness

----------------------------------------------------------------------------
\* The engine behind useAuditEngine.  The state holds one engine, engine 1.
\* pause, resume and cancel act on the engine in engineRef and do nothing
\* when it is null.

\* handleFileProcessed: uploadUrls(urls), before the first start.
UploadUrls ==
  /\ engines = 0
  /\ uploadedUrls = 0
  /\ \E n \in 1..MaxItems :
       \E nxt \in {auditReducer(St, [type |-> "UPLOAD_URLS", payload |-> n])} : Set(nxt)

\* useAuditEngine.start: throws without URLs; otherwise startAudit(config),
\* a new AuditEngine, engine.startAudit(uploadedUrls).
HookStart ==
  /\ uploadedUrls > 0
  /\ engines = 0
  /\ \E nxt \in {startAudit([auditReducer(St, [type |-> "START_AUDIT"])
                              EXCEPT !.engineRef = 1, !.engines = 1],
                            uploadedUrls)} : Set(nxt)

\* useAuditEngine.pause
HookPause ==
  /\ engineRef = 1
  /\ ~engPaused
  /\ pauses < MaxPauses
  /\ \E nxt \in {auditReducer([St EXCEPT !.engPaused = TRUE, !.rlPaused = TRUE,
                                          !.pauses = @ + 1],
                              [type |-> "PAUSE_AUDIT"])} : Set(nxt)

\* useAuditEngine.resume
HookResume ==
  /\ engineRef = 1
  /\ engPaused
  /\ \E nxt \in {auditReducer([St EXCEPT !.engPaused = FALSE, !.rlPaused = FALSE],
                              [type |-> "RESUME_AUDIT"])} : Set(nxt)

\* useAuditEngine.cancel
HookCancel ==
  /\ engineRef = 1
  /\ \E nxt \in {[auditReducer([St EXCEPT !.abortController = "aborted",
                                           !.isCancelled = TRUE],
                               [type |-> "CANCEL_AUDIT"])
                   EXCEPT !.engineRef = 0]} : Set(nxt)

\* One run started through the hook.
HookNext ==
  \/ UploadUrls
  \/ HookStart
  \/ HookPause
  \/ HookResume
  \/ HookCancel
  \/ PausePollTimer
  \/ ScheduledTimer
  \/ DelayTimer
  \/ \E i \in Items : AuditorSettles(i)

HookSpec == Init /\ [][HookNext]_vars

\* The same with start called a second time.  The second start constructs
\* and starts an engine of its own (engineRef = 2), which the state does not
\* hold: the behaviours are followed up to and including the second start.
\* useAuditEngine.start called again: nothing in it looks at the engine or
\* the session there is.
HookStartAgain ==
  /\ uploadedUrls > 0
  /\ engines = 1
  /\ \E nxt \in {[auditReducer(St, [type |-> "START_AUDIT"])
                   EXCEPT !.engineRef = 2, !.engines = 2]} : Set(nxt)

\* The steps of the engine the state holds, until a second one is started.
HookPausePollTimer == engines < 2 /\ PausePollTimer
HookScheduledTimer == engines < 2 /\ ScheduledTimer
HookDelayTimer == engines < 2 /\ DelayTimer
HookAuditorSettles(i) == engines < 2 /\ AuditorSettles(i)

RestartNext ==
  \/ UploadUrls
  \/ HookStart
  \/ HookStartAgain
  \/ HookPause
  \/ HookResume
  \/ HookCancel
  \/ HookPausePollTimer
  \/ HookScheduledTimer
  \/ HookDelayTimer
  \/ \E i \in Items : HookAuditorSettles(i)

RestartSpec == Init /\ [][RestartNext]_vars

----------------------------------------------------------------------------
\* The store alone: the actions AuditProvider's helpers dispatch, in any
\* order.  Without a session all but UPLOAD_URLS, START_AUDIT and
\* RESET_SESSION leave the state as it is.

DispatchUploadUrls ==
  \E n \in 1..MaxItems :
    \E nxt \in {auditReducer(St, [type |-> "UPLOAD_URLS", payload |-> n])} : Set(nxt)

DispatchStartAudit ==
  /\ sessionIds < MaxSessions
  /\ \E nxt \in {auditReducer(St, [type |-> "START_AUDIT"])} : Set(nxt)

DispatchUpdateProgress ==
  /\ session # NoSession
  /\ \E c \in 0..session.total :
       \E nxt \in {auditReducer(St, [type |-> "UPDATE_PROGRESS",
                                     payload |-> [currentUrl |-> IF c < session.total
                                                                   THEN c + 1 ELSE 0,
                                                  completed |-> c,
                                                  total |-> session.total]])} : Set(nxt)

\* The findings of one more URL arrive: the URLs' findings come once each,
\* here in list order.
DispatchAddResults ==
  /\ session # NoSession
  /\ \E n \in BatchSizes :
       LET u == IF session.results = << >> THEN 1
                ELSE session.results[Len(session.results)].url + 1
       IN  /\ u <= MaxItems
           /\ Count(session.results) + n <= MaxResults
           /\ \E nxt \in {auditReducer(St, [type |-> "ADD_RESULTS",
                                             payload |-> [url |-> u, lo |-> 1,
                                                          hi |-> n]])} : Set(nxt)

DispatchAddError ==
  /\ session # NoSession
  /\ session.errors < MaxErrors
  /\ \E nxt \in {auditReducer(St, [type |-> "ADD_ERROR"])} : Set(nxt)

DispatchPauseAudit ==
  /\ session # NoSession
  /\ \E nxt \in {auditReducer(St, [type |-> "PAUSE_AUDIT"])} : Set(nxt)

DispatchResumeAudit ==
  /\ session # NoSession
  /\ \E nxt \in {auditReducer(St, [type |-> "RESUME_AUDIT"])} : Set(nxt)

DispatchCancelAudit ==
  /\ session # NoSession
  /\ \E nxt \in {auditReducer(St, [type |-> "CANCEL_AUDIT"])} : Set(nxt)

DispatchCompleteAudit ==
  /\ session # NoSession
  /\ \E nxt \in {auditReducer(St, [type |-> "COMPLETE_AUDIT"])} : Set(nxt)

DispatchResetSession ==
  \E nxt \in {auditReducer(St, [type |-> "RESET_SESSION"])} : Set(nxt)

DispatchCleanupMemory ==
  /\ session # NoSession
  /\ \E nxt \in {auditReducer(St, [type |-> "CLEANUP_MEMORY"])} : Set(nxt)

ReducerNext ==
  \/ DispatchUploadUrls
  \/ DispatchStartAudit
  \/ DispatchUpdateProgress
  \/ DispatchAddResults
  \/ DispatchAddError
  \/ DispatchPauseAudit
  \/ DispatchResumeAudit
  \/ DispatchCancelAudit
  \/ DispatchCompleteAudit
  \/ DispatchResetSession
  \/ DispatchCleanupMemory

\* The engine's configuration plays no part here.
ReducerInit == Init /\ maxConcurrent = 1 /\ delayBetweenBatches = 0

ReducerSpec == ReducerInit /\ [][ReducerNext]_vars

\* r is the list of findings that s begins with.
IsPrefix(r, s) == Len(r) <= Len(s) /\ SubSeq(s, 1, Len(r)) = r

\* r is the list of findings that s ends with.
IsSuffix(r, s) == \E d \in 0..Count(s) : r = Drop(s, d)

----------------------------------------------------------------------------
\* One call of an auditor's audit(url, signal): ImageAuditor.audit and the
\* five others, which share its shape.  The page is the list of the elements
\* the auditor looks at, each one either flagged (a finding) or clean.

Pages == UNION {[1..n -> {"flagged", "clean"}] : n \in 0..MaxElems}

\* Seeded fault: the catch of audit() throws the error on.
handleErrorRethrows(c, message) ==
  [c EXCEPT !.pc = "rejected", !.result = << >>, !.warned = message]

\* catch (error) { return this.handleError(error, url) }: warn, return [].
handleError(c, message) ==
  [c EXCEPT !.pc = "resolved", !.result = << >>, !.warned = message]

\* The message of the error fetchAndParseHTML throws for a fetch that did not
\* bring a page: an AbortError (the run's signal or the 15 s timeout) becomes
\* 'Request was cancelled', anything else 'Failed to fetch <url>: ...'.
fetchError(outcome) ==
  IF outcome \in {"aborted", "timeout"}
    THEN "Request was cancelled"
    ELSE "Failed to fetch"

\* The positions of the flagged elements, in page order.
findings(page) ==
  LET Flagged(j) == page[j] = "flagged"
  IN  SelectSeq([j \in 1..Len(page) |-> j], Flagged)

\* elements.forEach(el => { this.checkAbortSignal(signal); ... }); return
\* results.  The loop is synchronous: the signal is what it was when the
\* page arrived, and the first iteration throws if it is aborted.
scan(c, page) ==
  IF Len(page) > 0 /\ c.signal = "aborted"
    THEN handleError(c, "Audit was cancelled")
    ELSE [c EXCEPT !.pc = "resolved", !.result = findings(page)]

\* audit(url, signal) up to `await this.fetchAndParseHTML(url, signal)`.
auditEntry(a, u, sig) ==
  LET c == [NoCall EXCEPT !.auditor = a, !.url = u, !.signal = sig]
  IN  IF sig = "aborted"
        THEN handleError(c, "Audit was cancelled")
        ELSE [c EXCEPT !.pc = "fetching"]

\* audit(url, signal) from the settling of the fetch on.
auditAfterFetch(c, outcome, page) ==
  LET c1 == [c EXCEPT !.fetch = outcome, !.page = page]
  IN  IF outcome = "ok"
        THEN scan(c1, page)
        ELSE handleError(c1, fetchError(outcome))

\* auditor.audit(url, signal) is called, with a signal live or already aborted.
CallAudit ==
  /\ call.pc = "idle"
  /\ \E a \in Auditors, u \in Items, sig \in {"live", "aborted"} :
       \E nxt \in {[St EXCEPT !.call = auditEntry(a, u, sig)]} : Set(nxt)

\* The run is cancelled while the fetch is under way.
AbortDuringFetch ==
  /\ call.pc = "fetching"
  /\ call.signal = "live"
  /\ \E nxt \in {[St EXCEPT !.call.signal = "aborted"]} : Set(nxt)

\* The fetch settles.  It can fail as aborted only if the signal is; a
\* response that was already there (or a fetch that ignores the signal, as
\* the one the tests put in) can still bring the page.
FetchSettles ==
  /\ call.pc = "fetching"
  /\ \E outcome \in FetchOutcomes, page \in Pages :
       /\ outcome = "aborted" => call.signal = "aborted"
       /\ outcome # "ok" => page = << >>
       /\ \E nxt \in {[St EXCEPT !.call = auditAfterFetch(call, outcome, page)]} : Set(nxt)

AuditNext ==
  \/ CallAudit
  \/ AbortDuringFetch
  \/ FetchSettles

AuditSpec == Init /\ [][AuditNext]_vars

----------------------------------------------------------------------------
InFlight == {i \in Items : item[i].st \in {"urlPause", "audit"}}

\* Nothing of the run is pending any more: every URL's worker has settled and
\* no processNext invocation is waiting on a timer.
Quiescent ==
  /\ \A i \in 1..urlsLen : item[i].st = "settled"
  /\ nPauseWait = 0 /\ nScheduled = 0 /\ nDelay = 0

\* The auditors whose findings URL i's page yields in a run that is not cancelled.
Expected(i) ==
  IF odd.url # i THEN Auditors
  ELSE IF odd.kind = "rejected" THEN Auditors \ {odd.auditor}
  ELSE {}

----------------------------------------------------------------------------
\* C1: at every instant the number of processor invocations that have
\* started and not yet settled is at most maxConcurrent.
C1_ConcurrencyBound == Cardinality(InFlight) <= maxConcurrent

\* A full batch is in flight while further items wait to be claimed.
C1_Witness ==
  /\ Cardinality(InFlight) = maxConcurrent
  /\ rlCompleted < urlsLen
  /\ pauses > 0

\* C2: in a run that is not cancelled the processor is invoked on the items
\* in increasing index order, each at most once, and once the run has
\* resolved on each exactly once.
C2_EachItemOnceInOrder ==
  abortController # "aborted" =>
    /\ \A j \in 1..Len(dispatchLog) : dispatchLog[j] = j
    /\ Len(dispatchLog) <= urlsLen
    /\ promise = "resolved" => Len(dispatchLog) = urlsLen

\* A run over more items than workers, paused and resumed on the way, has
\* resolved.
C2_Witness ==
  /\ abortController = "live"
  /\ promise = "resolved"
  /\ urlsLen > maxConcurrent
  /\ Len(dispatchLog) = urlsLen
  /\ pauses > 0 /\ ~rlPaused

\* C3: the processItems promise is resolved (and onComplete invoked) only
\* when every item has been dispatched and no worker is still in flight.
C3_ResolvesOnlyWhenAllSettled ==
  (promise = "resolved" \/ onCompleteCalls > 0) =>
    rlCompleted = urlsLen /\ InFlight = {}

\* C4: once cancel() has been called, onResults and onProgress are not
\* invoked any more.
C4_NoResultsOrProgressAfterCancel ==
  [][abortController = "aborted" =>
       delivered' = delivered /\ starts' = starts /\ ends' = ends]_vars

\* C5: once cancel() has been called, onComplete is not invoked.
C5_NoCompleteAfterCancel ==
  [][abortController = "aborted" => onCompleteCalls' = onCompleteCalls]_vars

\* C6: once cancel() has been called, onError is not invoked: neither with
\* url = 'system' nor for a URL.
C6_CancelIsNotAnError ==
  [][abortController = "aborted" =>
       systemErrors' = systemErrors /\ urlErrors' = urlErrors]_vars

\* C7: in a run that is not cancelled every URL gets at most one
\* start-of-processing event and at most one end-of-processing event, the end
\* never before the start; when all the work is done each URL has had exactly
\* one of each and the last event reported completed = total.
C7_OneStartOneEndPerUrl ==
  abortController = "live" =>
    /\ \A i \in Items : starts[i] <= 1 /\ ends[i] <= starts[i]
    /\ \A i \in Items : i > urlsLen => starts[i] = 0
    /\ Quiescent /\ urlsLen > 0 =>
         /\ \A i \in 1..urlsLen : starts[i] = 1 /\ ends[i] = 1
         /\ lastProgress.completed = urlsLen

\* A run of several URLs, never cancelled, has finished all its work.
C7_Witness ==
  /\ abortController = "live"
  /\ urlsLen > maxConcurrent
  /\ Quiescent
  /\ lastProgress.completed = urlsLen

\* C8: a started run over a non-empty list that is never cancelled eventually
\* has dispatched every item and resolved its promise, provided timers fire,
\* workers settle and pauses are followed by resume.
C8_RunEventuallyResolves ==
  (abortController = "live" /\ urlsLen > 0) ~>
    (abortController = "aborted" \/ (rlCompleted = urlsLen /\ promise = "resolved"))

\* A run that was paused while items were unclaimed has resolved.
C8_Witness ==
  /\ abortController = "live"
  /\ urlsLen > 1
  /\ pauses > 0
  /\ rlCompleted = urlsLen
  /\ promise = "resolved"
  /\ delayBetweenBatches > 0

\* C9: in a run that is not cancelled where one auditor rejected for one
\* URL, every URL whose processing has ended has had the findings of all its
\* other auditors delivered through onResults, no URL is reported as failed,
\* and when all the work is done onComplete has been invoked.
C9_EvaluatorIsolation ==
  (abortController = "live" /\ odd.kind = "rejected") =>
    /\ \A i \in 1..urlsLen : item[i].st = "settled" => delivered[i] = Expected(i)
    /\ Quiescent => onCompleteCalls = 1

\* One auditor rejected for a URL of a run of several URLs, and the run is
\* over with the findings of the other auditors and URLs delivered.
C9_Witness ==
  /\ abortController = "live"
  /\ Quiescent
  /\ urlsLen > 1
  /\ odd.kind = "rejected" /\ odd.auditor = 1
  /\ \A i \in 1..urlsLen : delivered[i] # {}

\* C10: a URL whose fetch failed has, when its processing ends, been reported
\* through onError.
C10_FetchFailureReported ==
  (odd.kind = "fetchFailed" /\ item[odd.url].st = "settled") => odd.url \in urlErrors

\* C11: in a run that is not cancelled, no step taken while the run is paused
\* hands an item to the processor, and a worker in flight that ends during
\* the pause ends normally: its end-of-processing event is emitted and the
\* findings of its page are delivered.
C11_PauseGatesDispatchOnly ==
  [][(rlPaused /\ abortController # "aborted") =>
       /\ dispatchLog' = dispatchLog
       /\ \A i \in InFlight :
            item'[i].st = "settled" =>
              ends'[i] = ends[i] + 1 /\ delivered'[i] = Expected(i)']_vars

\* A paused run with unclaimed items and free capacity: the workers that were
\* in flight have finished and delivered, a processNext invocation sleeps in
\* the pause loop, and nothing further has been dispatched.
C11_Witness ==
  /\ abortController = "live"
  /\ rlPaused /\ engPaused
  /\ nPauseWait > 0
  /\ InFlight = {}
  /\ 0 < rlCompleted /\ rlCompleted < urlsLen
  /\ \A i \in 1..rlCompleted : item[i].st = "settled" /\ delivered[i] = Auditors

\* C12 as stated, for a run that is not cancelled: between pause() and the
\* next resume() the completed count reported through onProgress does not
\* increase.
C12_CompletedFrozenWhilePaused ==
  [][(engPaused /\ abortController' = "live") =>
       engCompleted' = engCompleted
       /\ lastProgress'.completed = lastProgress.completed]_vars

\* C12 amended: while a run that is not cancelled is paused, no URL is
\* started and the completed count advances only through the workers that
\* were in flight when pause() was called: by exactly one, reported through
\* onProgress, for each of them that ends.
C12_CompletedAdvancesOnlyByInFlight ==
  [][(engPaused /\ abortController # "aborted") =>
       /\ InFlight' \subseteq InFlight
       /\ starts' = starts
       /\ engCompleted' = engCompleted + Cardinality(InFlight \ InFlight')
       /\ lastProgress'.completed = engCompleted']_vars

\* A paused run in which a full batch of several workers has ended, every
\* processNext invocation sleeps in the pause loop and items are unclaimed.
C12_Witness ==
  /\ abortController = "live"
  /\ engPaused
  /\ maxConcurrent > 1
  /\ nPauseWait = maxConcurrent
  /\ InFlight = {}
  /\ engCompleted = maxConcurrent /\ engCompleted < urlsLen
  /\ lastProgress.completed = engCompleted

\* C13: while the inter-batch delay that began when a worker's completion
\* left no worker active and items unclaimed has not elapsed, no item is
\* handed to the processor (stated for a run that is not cancelled).
C13_NoDispatchDuringBatchDelay ==
  [][(nDelay > 0 /\ abortController = "live") => dispatchLog' = dispatchLog]_vars

\* C14: once cancel() has been called, and with it the signal aborted, the
\* processor is not invoked for any further item.
C14_NoDispatchAfterCancel ==
  [][abortController = "aborted" => dispatchLog' = dispatchLog]_vars

\* C15: once the session's status is 'completed' or 'cancelled' it does not
\* change for as long as the session is the current one.
C15_TerminalStatusIsFinal ==
  [][(session.status \in {"completed", "cancelled"} /\ session'.id = session.id) =>
       session'.status = session.status]_vars

\* C16: throughout a run 0 <= completed <= total, in the engine's count, in
\* the onProgress payload and in the session's progress; the completed value
\* of successive onProgress events never decreases and is one more than the
\* previous at each end-of-processing event.
C16_CompletedBoundedAndMonotone ==
  /\ [](/\ 0 <= engCompleted /\ engCompleted <= urlsLen
        /\ 0 <= lastProgress.completed /\ lastProgress.completed <= urlsLen
        /\ session.status # "none" =>
             0 <= session.completed /\ session.completed <= session.total)
  /\ [][/\ lastProgress'.completed >= lastProgress.completed
        /\ \A i \in Items :
             ends'[i] # ends[i] =>
               lastProgress'.completed = lastProgress.completed + 1]_vars

\* A run of several URLs started through the hook, paused on the way, has
\* ended every URL and the session's progress shows completed = total.
C16_Witness ==
  /\ engines = 1
  /\ abortController = "live"
  /\ urlsLen > 1
  /\ pauses > 0
  /\ \A i \in 1..urlsLen : ends[i] = 1
  /\ session.completed = session.total /\ session.total = urlsLen

\* C17: no engine is constructed and started while the current session is
\* running or paused, and a start request leaves such a session as it is.
C17_NoStartWhileInProgress ==
  [][session.status \in {"running", "paused"} =>
       (engines' = engines /\ session'.id = session.id)]_vars

C19_AuditNeverRejects ==
  /\ call.pc # "rejected"
  /\ (call.pc = "resolved"
      /\ (call.fetch \in {"httpError", "networkError"} \/ call.signal = "aborted"))
       => call.result = << >>

\* The signal was aborted while the fetch was under way, the page came all
\* the same with elements to flag, and the call resolved to [].
C19_Witness ==
  /\ call.pc = "resolved"
  /\ call.signal = "aborted"
  /\ call.fetch = "ok"
  /\ findings(call.page) # << >>
  /\ call.result = << >>
  /\ call.warned = "Audit was cancelled"

----------------------------------------------------------------------------
\* CSVParser.parseCSV.  A file is a list of lines; the lines are taken from
\* a few that differ in what the parser does with them: a blank line, a
\* header row, rows whose first column is a URL with or without protocol,
\* a row whose first column is no URL, a row with an empty first column.

MaxLines == 3

Lines == {"  ", "URL,Description", "https://a.com,Home", "a.com",
          "https://b.com", "not-a-url", ",Home"}

Contents == UNION {[1..n -> Lines] : n \in 0..MaxLines}

\* line.trim()
trim(line) == IF line = "  " THEN "" ELSE line

\* parseCSVRow(line)[0]?.trim(): the text before the first separator.
firstColumn(line) ==
  CASE line = "URL,Description" -> "URL"
    [] line = "https://a.com,Home" -> "https://a.com"
    [] line = ",Home" -> ""
    [] OTHER -> trim(line)

\* detectHeader: the first field, in lower case, holds one of the keywords
\* 'url', 'link', 'website', 'address', 'site'.
detectHeader(firstLine) == firstColumn(firstLine) = "URL"

\* validateURL: a URL with protocol is taken as it is, a dotted name gets
\* 'https://' put before it, a name without a dot is refused.
validateURL(url) ==
  CASE url \in {"https://a.com", "https://b.com"} -> [isValid |-> TRUE, url |-> url, error |-> ""]
    [] url = "a.com" -> [isValid |-> TRUE, url |-> "https://a.com", error |-> ""]
    [] OTHER -> [isValid |-> FALSE, url |-> url, error |-> "Invalid URL format"]

\* The for loop of parseCSV from row i on: urls and errors so far in acc.
RECURSIVE parseRows(_, _, _)
parseRows(lines, i, acc) ==
  IF i > Len(lines) THEN acc
  ELSE
    LET field == firstColumn(trim(lines[i]))
        validation == validateURL(field)
    IN  IF field = ""
          THEN parseRows(lines, i + 1,
                 [acc EXCEPT !.errors = Append(@, [line |-> i, error |-> "Empty URL field"])])
        ELSE IF validation.isValid
          THEN parseRows(lines, i + 1, [acc EXCEPT !.urls = Append(@, validation.url)])
          ELSE parseRows(lines, i + 1,
                 [acc EXCEPT !.errors = Append(@, [line |-> i, error |-> validation.error])])

\* [...new Set(urls)]: each URL once, at the place of its first occurrence.
RECURSIVE removeDuplicates(_)
removeDuplicates(urls) ==
  IF urls = << >> THEN << >>
  ELSE
    LET front == removeDuplicates(SubSeq(urls, 1, Len(urls) - 1))
        last == urls[Len(urls)]
    IN  IF \E j \in 1..Len(front) : front[j] = last THEN front ELSE Append(front, last)

NotBlank(line) == trim(line) # ""

parseCSV(content) ==
  LET lines == SelectSeq(content, NotBlank)
  IN  IF Len(lines) = 0
        THEN [called |-> TRUE, content |-> content, urls |-> << >>,
              errors |-> << [line |-> 0, error |-> "CSV file is empty"] >>,
              totalRows |-> 0, validUrls |-> 0]
        ELSE
          LET hasHeader == detectHeader(lines[1])
              startIndex == IF hasHeader THEN 1 ELSE 0
              rows == parseRows(lines, startIndex + 1, [urls |-> << >>, errors |-> << >>])
          IN  [called |-> TRUE, content |-> content,
               urls |-> removeDuplicates(rows.urls),
               errors |-> rows.errors,
               totalRows |-> Len(lines) - (IF hasHeader THEN 1 ELSE 0),
               validUrls |-> Len(rows.urls)]

\* CSVParser.parseCSV(content) is called on some file.
ParseCSV ==
  /\ ~parsed.called
  /\ \E content \in Contents :
       \E nxt \in {[St EXCEPT !.parsed = parseCSV(content)]} : Set(nxt)

ParseNext == ParseCSV

ParseInit == Init /\ maxConcurrent = 1 /\ delayBetweenBatches = 0

ParseSpec == ParseInit /\ [][ParseNext]_vars

\* C21: parseCSV returns every URL once and reports as validUrls the number
\* of URLs in the list it returns.
C21_ValidUrlsIsLengthOfUrls ==
  parsed.called =>
    /\ parsed.validUrls = Len(parsed.urls)
    /\ \A j, k \in 1..Len(parsed.urls) : j # k => parsed.urls[j] # parsed.urls[k]

----------------------------------------------------------------------------
\* HeadingAuditor.audit on a page that was fetched, the signal live: the
\* page is the list of the levels of its h1..h6 elements in document order.

MaxHeadings == 3

HeadingPages == UNION {[1..n -> 1..6] : n \in 0..MaxHeadings}

\* The for loop of validateHeadingHierarchy from index i on (i - 1 in the
\* source, whose arrays start at 0): false at the first skip.
RECURSIVE validFrom(_, _)
validFrom(sequence, i) ==
  IF i > Len(sequence) THEN TRUE
  ELSE IF sequence[i] > sequence[i - 1] + 1 THEN FALSE
  ELSE validFrom(sequence, i + 1)

\* Seeded fault: every increase of the level is taken for a skip.
validateHeadingHierarchyAnyIncrease(headings) ==
  [isValid |-> \A j \in 2..Len(headings) : headings[j] <= headings[j - 1],
   sequence |-> headings]

validateHeadingHierarchy(headings) ==
  [isValid |-> validFrom(headings, 2), sequence |-> headings]

\* audit() from the arrival of the document on.
headingRule(headings) ==
  IF Len(headings) = 0
    THEN << >>
    ELSE
      LET v == validateHeadingHierarchy(headings)
      IN  IF ~v.isValid
            THEN << [type |-> "HeadingHierarchyIssue", details |-> v.sequence] >>
            ELSE << >>

RunHeadingAudit ==
  /\ ~headingAudit.called
  /\ \E headings \in HeadingPages :
       \E nxt \in {[St EXCEPT !.headingAudit =
                      [called |-> TRUE, levels |-> headings,
                       results |-> headingRule(headings)]]} : Set(nxt)

HeadingNext == RunHeadingAudit

HeadingInit == Init /\ maxConcurrent = 1 /\ delayBetweenBatches = 0

HeadingSpec == HeadingInit /\ [][HeadingNext]_vars

\* Some heading is more than one level below the heading before it.
SkipsLevel(levels) ==
  \E j \in 1..(Len(levels) - 1) : levels[j + 1] > levels[j] + 1

----------------------------------------------------------------------------
\* ButtonAuditor.audit on a page that was fetched, the signal live: the page
\* is the list of its button elements, each with the five places a label
\* can come from ("" where the element has none) and with or without an
\* icon indicator (an svg or img child, or an icon class).

MaxButtons == 1

Labels == {"", "Save", "Read more", "Learn more about us"}

ButtonElements ==
  [ariaLabel : Labels, title : {"", "Save"}, value : {"", "Save"},
   textContent : Labels, labelledBy : {"", "Save"}, icon : BOOLEAN]

ButtonPages == UNION {[1..n -> ButtonElements] : n \in 0..MaxButtons}

\* aria-label, title, value, text content, the element aria-labelledby names:
\* the first that is not empty.
extractButtonLabel(element) ==
  IF element.ariaLabel # "" THEN element.ariaLabel
  ELSE IF element.title # "" THEN element.title
  ELSE IF element.value # "" THEN element.value
  ELSE IF element.textContent # "" THEN element.textContent
  ELSE IF element.labelledBy # "" THEN element.labelledBy
  ELSE ""

toLowerCase(label) ==
  CASE label = "Save" -> "save"
    [] label = "Read more" -> "read more"
    [] label = "Learn more about us" -> "learn more about us"
    [] OTHER -> label

\* The text includes one of TRIGGER_PHRASES ('read more', 'learn more',
\* 'more', ...).
containsTriggerPhrase(text) == text \in {"read more", "learn more about us"}

\* The text includes one of EXCLUDED_PHRASES ('learn more about us').
containsExcludedPhrase(text) == text = "learn more about us"

isIconOnlyButton(element, hasLabel) ==
  IF hasLabel THEN FALSE ELSE element.icon

\* Seeded fault: an excluded phrase does not keep the button from being flagged.
isFlaggedDespiteExclusion(isIconOnly, hasLabel, hasVagueLabel, isExcluded) ==
  isIconOnly \/ ~hasLabel \/ hasVagueLabel

\* (isIconOnly || !hasLabel || hasVagueLabel) && !isExcluded
isFlagged(isIconOnly, hasLabel, hasVagueLabel, isExcluded) ==
  (isIconOnly \/ ~hasLabel \/ hasVagueLabel) /\ ~isExcluded

\* The body of buttonElements.forEach for the j-th element: the findings it
\* pushes.
buttonFindings(element, j) ==
  LET label == extractButtonLabel(element)
      labelText == toLowerCase(label)
      hasLabel == labelText # ""
      isIconOnly == isIconOnlyButton(element, hasLabel)
      hasVagueLabel == hasLabel /\ containsTriggerPhrase(labelText)
      isExcluded == containsExcludedPhrase(labelText)
  IN  IF isFlagged(isIconOnly, hasLabel, hasVagueLabel, isExcluded)
        THEN << [type |-> "InaccessibleButton", element |-> j,
                 details |-> IF isIconOnly THEN "Missing accessible label (icon-only)"
                             ELSE IF ~hasLabel THEN "Missing accessible label"
                             ELSE "Vague button label",
                 linkText |-> label] >>
        ELSE << >>

RECURSIVE buttonRule(_, _)
buttonRule(elements, j) ==
  IF j > Len(elements) THEN << >>
  ELSE buttonFindings(elements[j], j) \o buttonRule(elements, j + 1)

RunButtonAudit ==
  /\ ~buttonAudit.called
  /\ \E elements \in ButtonPages :
       \E nxt \in {[St EXCEPT !.buttonAudit =
                      [called |-> TRUE, buttons |-> elements,
                       results |-> buttonRule(elements, 1)]]} : Set(nxt)

ButtonNext == RunButtonAudit

ButtonInit == Init /\ maxConcurrent = 1 /\ delayBetweenBatches = 0

ButtonSpec == ButtonInit /\ [][ButtonNext]_vars

\* The places of a button that hold a label, in the order of preference.
LabelSources(b) ==
  SelectSeq(<< b.ariaLabel, b.title, b.value, b.textContent, b.labelledBy >>,
            LAMBDA l : l # "")

\* The findings the auditor returned for the j-th button.
FindingsFor(j) ==
  SelectSeq(buttonAudit.results, LAMBDA f : f.element = j)

\* C23: a button is flagged, with exactly one InaccessibleButton finding, iff
\* it is icon-only, or has no label, or its label holds a trigger phrase, and
\* its label holds no excluded phrase; the details say icon-only before
\* missing label before vague label.
C23_ButtonFlaggedIffUnlabelledOrVague ==
  buttonAudit.called =>
    \A j \in 1..Len(buttonAudit.buttons) :
      LET b == buttonAudit.buttons[j]
          found == LabelSources(b) # << >>
          label == IF found THEN toLowerCase(LabelSources(b)[1]) ELSE ""
          iconOnly == ~found /\ b.icon
          vague == found /\ containsTriggerPhrase(label)
          excluded == containsExcludedPhrase(label)
      IN  IF (iconOnly \/ ~found \/ vague) /\ ~excluded
            THEN /\ Len(FindingsFor(j)) = 1
                 /\ FindingsFor(j)[1].type = "InaccessibleButton"
                 /\ FindingsFor(j)[1].details =
                      IF iconOnly THEN "Missing accessible label (icon-only)"
                      ELSE IF ~found THEN "Missing accessible label"
                      ELSE "Vague button label"
            ELSE FindingsFor(j) = << >>

\* A button whose label holds both a trigger phrase and the excluded phrase
\* has been audited and not flagged.
C23_Witness ==
  /\ buttonAudit.called
  /\ Len(buttonAudit.buttons) = 1
  /\ extractButtonLabel(buttonAudit.buttons[1]) = "Learn more about us"
  /\ buttonAudit.buttons[1].icon
  /\ buttonAudit.results = << >>

\* How often URL i was handed to the processor.
Attempts(i) == Cardinality({j \in 1..Len(dispatchLog) : dispatchLog[j] = i})

\* C24: a URL whose fetch failed is attempted again: when a run that was not
\* cancelled has resolved, such a URL has been handed to the processor more
\* than once.
C24_FailedUrlIsRetried ==
  (odd.kind = "fetchFailed" /\ promise = "resolved" /\ abortController = "live")
    => Attempts(odd.url) > 1

\* C25: in a run that is not cancelled, the onProgress event at the end of a
\* URL's processing names as currentUrl a URL of the list whose processing
\* has not finished, or no URL (0, the empty string) when every URL has
\* finished.
C25_EndEventNamesPendingUrl ==
  [][((\E i \in Items : ends'[i] = ends[i] + 1) /\ abortController' = "live") =>
       LET u == lastProgress'.currentUrl
       IN  IF \A i \in 1..urlsLen : item'[i].st = "settled"
             THEN u = 0
             ELSE u \in 1..urlsLen /\ item'[u].st # "settled"]_vars

\* C26: a fetch that ran into the fetcher's own timeout, the run's signal
\* still live, fails with an error other than the one a fetch aborted by the
\* run's cancellation fails with.
C26_TimeoutDiffersFromCancellation ==
  (call.fetch = "timeout" /\ call.signal = "live")
    => call.warned # fetchError("aborted")

\* C27: a call of startAudit delivers at most one terminal notification:
\* onComplete at most once, onError with url = 'system' at most once, and
\* never both.
C27_AtMostOneTerminalNotification ==
  onCompleteCalls + systemErrors <= 1

\* A run with two workers in flight was cancelled; both workers have ended
\* and each one's processNext has found the run cancelled.
C27_Witness ==
  /\ abortController = "aborted"
  /\ promise = "rejected"
  /\ systemErrors = 1
  /\ Quiescent
  /\ Cardinality({i \in Items : item[i].st = "settled" /\ delivered[i] = {}}) >= 2

\* AuditEngine.isRunning(): abortController !== null &&
\* !abortController.signal.aborted && !isPaused.
isRunning == abortController = "live" /\ ~engPaused

\* C28: isRunning() is true only while a run is in progress and not paused: it
\* is false before startAudit, after cancel() and once the run has finished
\* and onComplete has been invoked.
C28_IsRunningOnlyDuringRun ==
  isRunning => (promise = "pending" /\ onCompleteCalls = 0 /\ ~engPaused)

\* C29: a run over an empty list that is not cancelled terminates: the
\* promise of processItems resolves, no item having been handed to the
\* processor, and startAudit invokes onComplete.
C29_EmptyRunEventuallyCompletes ==
  (abortController = "live" /\ urlsLen = 0) ~>
    (abortController = "aborted"
       \/ (promise = "resolved" /\ onCompleteCalls = 1 /\ dispatchLog = << >>))

\* C30: the engine's paused flag and its RateLimiter's paused flag are equal
\* after every sequence of startAudit, pause, resume and cancel, so that a
\* run never starts with its scheduler paused.
C30_PausedFlagsAgree ==
  engPaused = rlPaused

====
